---- MODULE Spec2Model ----
(* A model of the xot tree store (XmlData): the arena-backed node graph,   *)
(* the structural mutation engine (append, prepend, insert_after,          *)
(* insert_before, detach, remove) with its structure checks and text       *)
(* consolidation, and node creation.                                       *)
EXTENDS Integers, Sequences, FiniteSets, TLC

(***************************************************************************)
(* Bounds of the model.                                                    *)
(***************************************************************************)
\* number of arena slots the arena may grow to by node creation
MaxNodes == 3
\* longest text content a Text node may hold
MaxLen == 2
\* number of names the name table may grow to
MaxNames == 2

(***************************************************************************)
(* Values.  Option<XmlNode> is a slot index, None is 0.                    *)
(***************************************************************************)
ValueTypes == {"Root", "Element", "Text", "Comment", "ProcessingInstruction"}

\* the text contents new_text is called with
TextInputs == {<<"a">>, <<"b">>}

None == 0

\* ids handed out by the lookups of XmlData: the "no namespace" sentinel and
\* the empty prefix are interned first, by XmlData::new
no_namespace_id == 1
empty_prefix_id == 1

\* two more namespaces and one more prefix, as interned by a caller
N1 == 2
N2 == 3
P == 2

NamespaceIds == {no_namespace_id, N1, N2}
PrefixIds == {empty_prefix_id, P}

\* Element.namespace_info: the declarations of one element, as a map from
\* namespace to prefix and a map from prefix to namespace
NoDeclarations == [to_prefix |-> <<>>, to_namespace |-> <<>>]

\* the namespace_info of an element that declares prefix -> namespace
Declare(prefix_id, namespace_id) ==
    [to_prefix |-> (namespace_id :> prefix_id),
     to_namespace |-> (prefix_id :> namespace_id)]

\* HashMap::get
Get(map, key) == IF key \in DOMAIN map THEN map[key] ELSE None

\* the content of a slot whose node was freed (the value is gone)
Freed == [kind |-> "Freed", text |-> <<>>, namespace_info |-> NoDeclarations]

XmlValue(kind, text) ==
    [kind |-> kind, text |-> text, namespace_info |-> NoDeclarations]

\* an Element with declarations
ElementValue(namespace_info) ==
    [kind |-> "Element", text |-> <<>>, namespace_info |-> namespace_info]

\* a fresh arena node: no links, not removed
NewSlot(value) ==
    [removed |-> FALSE, value |-> value, parent |-> None,
     previous_sibling |-> None, next_sibling |-> None,
     first_child |-> None, last_child |-> None]

VARIABLES
    arena,      \* XmlData.arena: the sequence of arena nodes
    free,       \* the arena's list of freed slots, oldest first
    last,       \* the last call made and what it returned
    namespace_lookup,   \* XmlData.namespace_lookup: namespaces by NamespaceId
    prefix_lookup,      \* XmlData.prefix_lookup: prefixes by PrefixId
    name_lookup         \* XmlData.name_lookup: names by NameId

lookup_vars == <<namespace_lookup, prefix_lookup, name_lookup>>

vars == <<arena, free, last, namespace_lookup, prefix_lookup, name_lookup>>

Slots(a) == 1..Len(a)

(***************************************************************************)
(* Accessors of XmlData.                                                   *)
(***************************************************************************)
is_removed(a, n) == a[n].removed

parent(a, n) == a[n].parent
first_child(a, n) == a[n].first_child
last_child(a, n) == a[n].last_child
next_sibling(a, n) == a[n].next_sibling
previous_sibling(a, n) == a[n].previous_sibling

value_type(a, n) == a[n].value.kind

is_root(a, n) == value_type(a, n) = "Root"
is_text(a, n) == value_type(a, n) = "Text"

\* is_under_root that never finds the Root above the node
is_under_rootNever(a, n) == FALSE

is_under_root(a, n) ==
    IF parent(a, n) # None THEN value_type(a, parent(a, n)) = "Root" ELSE FALSE

\* text_str: the content of a Text node
text_str(a, n) == a[n].value.text

\* children(node): first_child, then next_sibling until None
RECURSIVE SiblingsFrom(_, _, _)
SiblingsFrom(a, n, fuel) ==
    IF n = None \/ fuel = 0 THEN <<>>
    ELSE <<n>> \o SiblingsFrom(a, next_sibling(a, n), fuel - 1)

children(a, n) == SiblingsFrom(a, first_child(a, n), Len(a))

\* ancestors(node): node, its parent, ... ; Walk is TRUE when target is met,
\* FALSE when the walk ends at a parentless node, and "hang" when the walk
\* never ends (a parent cycle that does not hold target)
RECURSIVE AncestorWalk(_, _, _, _)
AncestorWalk(a, n, target, fuel) ==
    IF n = None THEN "no"
    ELSE IF n = target THEN "yes"
    ELSE IF fuel = 0 THEN "hang"
    ELSE AncestorWalk(a, parent(a, n), target, fuel - 1)


(***************************************************************************)
(* The arena's link surgery (indextree), as the calls of XmlData use it.   *)
(***************************************************************************)
\* connect_neighbors that links previous to next and not next to previous
connect_neighborsOneWay(a, par, previous, next) ==
    LET pfc0 == IF par # None THEN a[par].first_child ELSE None
        plc0 == IF par # None THEN a[par].last_child ELSE None
        a1 == IF previous # None
                THEN [a EXCEPT ![previous].next_sibling = next] ELSE a
        pfc == IF previous # None
                THEN (IF pfc0 # None THEN pfc0 ELSE previous) ELSE next
        plc == IF next # None
                THEN (IF plc0 # None THEN plc0 ELSE next) ELSE previous
    IN  IF par # None
        THEN [a1 EXCEPT ![par].first_child = pfc, ![par].last_child = plc]
        ELSE a1

\* connect previous <-> next under parent, fixing the parent's first/last child
connect_neighbors(a, par, previous, next) ==
    LET pfc0 == IF par # None THEN a[par].first_child ELSE None
        plc0 == IF par # None THEN a[par].last_child ELSE None
        a1 == IF previous # None
                THEN [a EXCEPT ![previous].next_sibling = next] ELSE a
        pfc == IF previous # None
                THEN (IF pfc0 # None THEN pfc0 ELSE previous) ELSE next
        a2 == IF next # None
                THEN [a1 EXCEPT ![next].previous_sibling = previous] ELSE a1
        plc == IF next # None
                THEN (IF plc0 # None THEN plc0 ELSE next) ELSE previous
    IN  IF par # None
        THEN [a2 EXCEPT ![par].first_child = pfc, ![par].last_child = plc]
        ELSE a2

\* cut the sibling range first..last out of its sibling list
detach_from_siblings(a, first, lst) ==
    LET par == a[first].parent
        prev_of_range == a[first].previous_sibling
        next_of_range == a[lst].next_sibling
        a1 == [a EXCEPT ![first].previous_sibling = None]
        a2 == [a1 EXCEPT ![lst].next_sibling = None]
    IN  connect_neighbors(a2, par, prev_of_range, next_of_range)

\* set the parent of every node of a detached range; fails on new_parent
\* being a node of the range (the nodes before it keep the new parent)
RECURSIVE rewrite_parents(_, _, _, _)
rewrite_parents(a, child, new_parent, fuel) ==
    IF child = None \/ fuel = 0 THEN [ok |-> TRUE, arena |-> a]
    ELSE IF child = new_parent THEN [ok |-> FALSE, arena |-> a]
    ELSE rewrite_parents([a EXCEPT ![child].parent = new_parent],
                         a[child].next_sibling, new_parent, fuel - 1)

\* put a detached range between previous_sibling and next_sibling of parent
transplant(a, first, lst, par, previous, next) ==
    LET r == rewrite_parents(a, first, par, Len(a))
    IN  IF ~r.ok THEN r
        ELSE [ok |-> TRUE,
              arena |-> connect_neighbors(
                            connect_neighbors(r.arena, par, previous, first),
                            par, lst, next)]

\* NodeId::detach that also drops the declarations stored in the node
node_detachDropDeclarations(a, n) ==
    [rewrite_parents(detach_from_siblings(a, n, n), n, None, Len(a)).arena
        EXCEPT ![n].value.namespace_info = NoDeclarations]

\* NodeId::detach: unlink the node from parent and siblings, keep its children
node_detach(a, n) ==
    rewrite_parents(detach_from_siblings(a, n, n), n, None, Len(a)).arena

\* insert_with_neighbors: refuses a neighbour or a parent that is the node
insert_with_neighbors(a, new, par, previous, next) ==
    IF previous = new \/ next = new THEN [ok |-> FALSE, arena |-> a]
    ELSE IF par = new THEN [ok |-> FALSE, arena |-> a]
    ELSE transplant(detach_from_siblings(a, new, new), new, new,
                    par, previous, next)

\* Arena::free_node: the value is dropped, the slot joins the free list; the
\* links of the slot are left as they are
free_node(a, f, n) ==
    [arena |-> [a EXCEPT ![n].removed = TRUE, ![n].value = Freed],
     free |-> Append(f, n)]

\* the outcome of a call on the arena
Outcome(res, why, a, f) == [res |-> res, why |-> why, arena |-> a, free |-> f]

\* .expect(..) on the result of the link surgery
Expect(r, f) ==
    IF r.ok THEN Outcome("Ok", "", r.arena, f)
    ELSE Outcome("Panic", "Should never fail", r.arena, f)

\* NodeId::checked_append
checked_append(a, f, self, new_child) ==
    IF new_child = self THEN Outcome("NodeError", "AppendSelf", a, f)
    ELSE IF is_removed(a, self) \/ is_removed(a, new_child)
    THEN Outcome("NodeError", "Removed", a, f)
    ELSE LET w == AncestorWalk(a, self, new_child, Len(a))
         IN  IF w = "yes" THEN Outcome("NodeError", "AppendAncestor", a, f)
             ELSE IF w = "hang" THEN Outcome("Hang", "", a, f)
             ELSE LET a1 == node_detach(a, new_child)
                  IN  Expect(insert_with_neighbors(a1, new_child, self,
                                 a1[self].last_child, None), f)

\* NodeId::checked_prepend
checked_prepend(a, f, self, new_child) ==
    IF new_child = self THEN Outcome("NodeError", "PrependSelf", a, f)
    ELSE IF is_removed(a, self) \/ is_removed(a, new_child)
    THEN Outcome("NodeError", "Removed", a, f)
    ELSE LET w == AncestorWalk(a, self, new_child, Len(a))
         IN  IF w = "yes" THEN Outcome("NodeError", "PrependAncestor", a, f)
             ELSE IF w = "hang" THEN Outcome("Hang", "", a, f)
             ELSE LET a1 == node_detach(a, new_child)
                  IN  Expect(insert_with_neighbors(a1, new_child, self,
                                 None, a1[self].first_child), f)

\* NodeId::checked_insert_after
checked_insert_after(a, f, self, new_sibling) ==
    IF new_sibling = self THEN Outcome("NodeError", "InsertAfterSelf", a, f)
    ELSE IF is_removed(a, self) \/ is_removed(a, new_sibling)
    THEN Outcome("NodeError", "Removed", a, f)
    ELSE LET a1 == node_detach(a, new_sibling)
         IN  Expect(insert_with_neighbors(a1, new_sibling, a1[self].parent,
                        self, a1[self].next_sibling), f)

\* NodeId::checked_insert_before
checked_insert_before(a, f, self, new_sibling) ==
    IF new_sibling = self THEN Outcome("NodeError", "InsertBeforeSelf", a, f)
    ELSE IF is_removed(a, self) \/ is_removed(a, new_sibling)
    THEN Outcome("NodeError", "Removed", a, f)
    ELSE LET a1 == node_detach(a, new_sibling)
         IN  Expect(insert_with_neighbors(a1, new_sibling, a1[self].parent,
                        a1[self].previous_sibling, self), f)

\* NodeId::remove: the node is freed and its children take its place
node_remove(a, f, n) ==
    LET par == a[n].parent
        previous == a[n].previous_sibling
        next == a[n].next_sibling
        fc == a[n].first_child
        lc == a[n].last_child
        a1 == node_detach(a, n)
        r == IF fc # None /\ lc # None
              THEN transplant(detach_from_siblings(a1, fc, lc), fc, lc,
                              par, previous, next)
              ELSE [ok |-> TRUE, arena |-> a1]
    IN  IF ~r.ok THEN Outcome("Panic", "Should never fail", r.arena, f)
        ELSE LET fr == free_node(r.arena, f, n)
             IN  Outcome("Ok", "", fr.arena, fr.free)

\* the node the pre-order cursor of remove_subtree moves to after id
RECURSIVE NextUp(_, _, _)
NextUp(a, n, fuel) ==
    IF n = None \/ fuel = 0 THEN None
    ELSE IF a[n].next_sibling # None THEN a[n].next_sibling
    ELSE NextUp(a, a[n].parent, fuel - 1)

RECURSIVE FreeFrom(_, _, _, _)
FreeFrom(a, f, cursor, fuel) ==
    IF cursor = None \/ fuel = 0 THEN [arena |-> a, free |-> f]
    ELSE LET fr == free_node(a, f, cursor)
             nxt == IF a[cursor].first_child # None THEN a[cursor].first_child
                    ELSE IF a[cursor].next_sibling # None
                    THEN a[cursor].next_sibling
                    ELSE NextUp(a, a[cursor].parent, Len(a))
         IN  FreeFrom(fr.arena, fr.free, nxt, fuel - 1)

\* NodeId::remove_subtree: detach the node, free it and every descendant
remove_subtree(a, f, n) ==
    FreeFrom(node_detach(a, n), f, n, Len(a))


(***************************************************************************)
(* XmlData: creation.                                                      *)
(***************************************************************************)
\* Arena::new_node under XmlData::new_node: the oldest freed slot is reused
\* with its links reset, else the arena grows by one slot
new_node(a, f, value) ==
    IF f # <<>>
    THEN [node |-> Head(f),
          arena |-> [a EXCEPT ![Head(f)] = NewSlot(value)],
          free |-> Tail(f)]
    ELSE [node |-> Len(a) + 1,
          arena |-> Append(a, NewSlot(value)),
          free |-> f]

new_text(a, f, text) == new_node(a, f, XmlValue("Text", text))
new_element(a, f) == new_node(a, f, XmlValue("Element", <<>>))
new_comment(a, f) == new_node(a, f, XmlValue("Comment", <<>>))
new_processing_instruction(a, f) ==
    new_node(a, f, XmlValue("ProcessingInstruction", <<>>))

(***************************************************************************)
(* XmlData: structure checks and text consolidation.                       *)
(***************************************************************************)
\* add_structure_check without the rule on Text under the Root
add_structure_checkTextAnywhere(a, par, child) ==
    IF par = None THEN "Cannot create siblings for document root"
    ELSE CASE value_type(a, child) = "Root" -> "Cannot move document root"
           [] value_type(a, child) = "Element" ->
                IF is_under_root(a, child) THEN "Cannot move root element"
                ELSE IF is_root(a, par)
                THEN "Cannot move extra element under document root"
                ELSE ""
           [] OTHER -> ""

\* add_structure_check that lets a missing parent pass
add_structure_checkNoParentCheck(a, par, child) ==
    IF par = None THEN ""
    ELSE CASE value_type(a, child) = "Root" -> "Cannot move document root"
           [] value_type(a, child) = "Element" ->
                IF is_under_root(a, child) THEN "Cannot move root element"
                ELSE IF is_root(a, par)
                THEN "Cannot move extra element under document root"
                ELSE ""
           [] value_type(a, child) = "Text" ->
                IF is_root(a, par)
                THEN "Cannot move text under document root"
                ELSE ""
           [] OTHER -> ""

\* add_structure_check that keeps Comments and ProcessingInstructions out
\* of the Root as well
add_structure_checkNothingUnderRoot(a, par, child) ==
    IF par = None THEN "Cannot create siblings for document root"
    ELSE CASE value_type(a, child) = "Root" -> "Cannot move document root"
           [] value_type(a, child) = "Element" ->
                IF is_under_root(a, child) THEN "Cannot move root element"
                ELSE IF is_root(a, par)
                THEN "Cannot move extra element under document root"
                ELSE ""
           [] OTHER ->
                IF is_root(a, par)
                THEN "Cannot move text under document root"
                ELSE ""

\* "" when the check passes, else the reason of Error::InvalidOperation
add_structure_check(a, par, child) ==
    IF par = None THEN "Cannot create siblings for document root"
    ELSE CASE value_type(a, child) = "Root" -> "Cannot move document root"
           [] value_type(a, child) = "Element" ->
                IF is_under_root(a, child) THEN "Cannot move root element"
                ELSE IF is_root(a, par)
                THEN "Cannot move extra element under document root"
                ELSE ""
           [] value_type(a, child) = "Text" ->
                IF is_root(a, par)
                THEN "Cannot move text under document root"
                ELSE ""
           [] OTHER -> ""

\* remove_structure_check without the rule on the root element
remove_structure_checkNoRootElement(a, node) ==
    CASE value_type(a, node) = "Root" -> "Cannot remove document root"
      [] OTHER -> ""

remove_structure_check(a, node) ==
    CASE value_type(a, node) = "Root" -> "Cannot remove document root"
      [] value_type(a, node) = "Element" ->
            IF is_under_root(a, node) THEN "Cannot remove root element"
            ELSE ""
      [] OTHER -> ""

\* the Text content of node n set to t
set_text(a, n, t) == [a EXCEPT ![n].value.text = t]

\* add_consolidate_text_nodes that puts the added text in front of the
\* previous node's text
add_consolidate_text_nodesSwapped(a, f, node, prev_node, next_node) ==
    LET no == [merged |-> FALSE, res |-> "Ok", arena |-> a, free |-> f]
        done(o) == [merged |-> TRUE, res |-> o.res,
                    arena |-> o.arena, free |-> o.free]
        added_text == text_str(a, node)
    IN  IF ~is_text(a, node) THEN no
        ELSE IF prev_node # None
        THEN IF is_text(a, prev_node)
             THEN done(node_remove(
                     set_text(a, prev_node,
                              added_text \o text_str(a, prev_node)),
                     f, node))
             ELSE no
        ELSE IF next_node # None
        THEN IF is_text(a, next_node)
             THEN done(node_remove(
                     set_text(a, next_node,
                              added_text \o text_str(a, next_node)),
                     f, node))
             ELSE no
        ELSE no

\* res "Ok" with merged TRUE when node was merged into a neighbour and freed
add_consolidate_text_nodes(a, f, node, prev_node, next_node) ==
    LET no == [merged |-> FALSE, res |-> "Ok", arena |-> a, free |-> f]
        done(o) == [merged |-> TRUE, res |-> o.res,
                    arena |-> o.arena, free |-> o.free]
        added_text == text_str(a, node)
    IN  IF ~is_text(a, node) THEN no
        ELSE IF prev_node # None
        THEN IF is_text(a, prev_node)
             THEN done(node_remove(
                     set_text(a, prev_node,
                              text_str(a, prev_node) \o added_text),
                     f, node))
             ELSE no
        ELSE IF next_node # None
        THEN IF is_text(a, next_node)
             THEN done(node_remove(
                     set_text(a, next_node,
                              added_text \o text_str(a, next_node)),
                     f, node))
             ELSE no
        ELSE no

remove_consolidate_text_nodes(a, f, prev_node, next_node) ==
    IF prev_node = None THEN Outcome("Ok", "", a, f)
    ELSE IF next_node = None THEN Outcome("Ok", "", a, f)
    ELSE IF ~is_text(a, prev_node) \/ ~is_text(a, next_node)
    THEN Outcome("Ok", "", a, f)
    ELSE node_remove(
            set_text(a, prev_node,
                     text_str(a, prev_node) \o text_str(a, next_node)),
            f, next_node)

(***************************************************************************)
(* XmlData: the structural mutation engine.                                *)
(***************************************************************************)
\* append that links the child before it looks at the structure check
appendLinkBeforeCheck(a, f, par, child) ==
    LET why == add_structure_check(a, par, child)
        linked == checked_append(a, f, par, child)
    IN  IF why # "" THEN Outcome("InvalidOperation", why, linked.arena, f)
        ELSE LET c == add_consolidate_text_nodes(a, f, child,
                                                 last_child(a, par), None)
             IN  IF c.merged THEN Outcome(c.res, "", c.arena, c.free)
                 ELSE linked

append(a, f, par, child) ==
    LET why == add_structure_check(a, par, child)
    IN  IF why # "" THEN Outcome("InvalidOperation", why, a, f)
        ELSE LET c == add_consolidate_text_nodes(a, f, child,
                                                 last_child(a, par), None)
             IN  IF c.merged THEN Outcome(c.res, "", c.arena, c.free)
                 ELSE checked_append(a, f, par, child)

prepend(a, f, par, child) ==
    LET why == add_structure_check(a, par, child)
    IN  IF why # "" THEN Outcome("InvalidOperation", why, a, f)
        ELSE LET c == add_consolidate_text_nodes(a, f, child,
                                                 None, first_child(a, par))
             IN  IF c.merged THEN Outcome(c.res, "", c.arena, c.free)
                 ELSE checked_prepend(a, f, par, child)

insert_after(a, f, reference_node, new_sibling) ==
    LET why == add_structure_check(a, parent(a, reference_node), new_sibling)
    IN  IF why # "" THEN Outcome("InvalidOperation", why, a, f)
        ELSE LET c == add_consolidate_text_nodes(a, f, new_sibling,
                         reference_node, next_sibling(a, reference_node))
             IN  IF c.merged THEN Outcome(c.res, "", c.arena, c.free)
                 ELSE checked_insert_after(a, f, reference_node,
                                           new_sibling)

\* insert_before that checks the structure against the reference node
\* instead of its parent
insert_beforeCheckReference(a, f, reference_node, new_sibling) ==
    LET why == add_structure_check(a, reference_node, new_sibling)
    IN  IF why # "" THEN Outcome("InvalidOperation", why, a, f)
        ELSE LET c == add_consolidate_text_nodes(a, f, new_sibling,
                         previous_sibling(a, reference_node), reference_node)
             IN  IF c.merged THEN Outcome(c.res, "", c.arena, c.free)
                 ELSE checked_insert_before(a, f, reference_node,
                                            new_sibling)

insert_before(a, f, reference_node, new_sibling) ==
    LET why == add_structure_check(a, parent(a, reference_node), new_sibling)
    IN  IF why # "" THEN Outcome("InvalidOperation", why, a, f)
        ELSE LET c == add_consolidate_text_nodes(a, f, new_sibling,
                         previous_sibling(a, reference_node), reference_node)
             IN  IF c.merged THEN Outcome(c.res, "", c.arena, c.free)
                 ELSE checked_insert_before(a, f, reference_node,
                                            new_sibling)

\* detach that unlinks the node before it looks at the structure check
detachUnlinkBeforeCheck(a, f, node) ==
    LET why == remove_structure_check(a, node)
    IN  IF why # "" THEN Outcome("InvalidOperation", why, node_detach(a, node), f)
        ELSE remove_consolidate_text_nodes(node_detach(a, node), f,
                 previous_sibling(a, node), next_sibling(a, node))

detach(a, f, node) ==
    LET why == remove_structure_check(a, node)
    IN  IF why # "" THEN Outcome("InvalidOperation", why, a, f)
        ELSE remove_consolidate_text_nodes(node_detach(a, node), f,
                 previous_sibling(a, node), next_sibling(a, node))

\* remove that frees the node alone and leaves its children in its place
removeNodeOnly(a, f, node) ==
    LET why == remove_structure_check(a, node)
    IN  IF why # "" THEN Outcome("InvalidOperation", why, a, f)
        ELSE LET r == node_remove(a, f, node)
             IN  remove_consolidate_text_nodes(r.arena, r.free,
                     previous_sibling(a, node), next_sibling(a, node))

remove(a, f, node) ==
    LET why == remove_structure_check(a, node)
    IN  IF why # "" THEN Outcome("InvalidOperation", why, a, f)
        ELSE LET r == remove_subtree(a, f, node)
             IN  remove_consolidate_text_nodes(r.arena, r.free,
                     previous_sibling(a, node), next_sibling(a, node))

\* root_element(document): the first Element among the children of the root,
\* None standing for the unreachable!() branch
RECURSIVE FirstElement(_, _)
FirstElement(a, seq) ==
    IF seq = <<>> THEN None
    ELSE IF value_type(a, Head(seq)) = "Element" THEN Head(seq)
    ELSE FirstElement(a, Tail(seq))

root_element(a, document) == FirstElement(a, children(a, document))

(***************************************************************************)
(* Namespace resolution (document.rs) and the contextual name accessor     *)
(* (xmlname/reference.rs).                                                 *)
(***************************************************************************)
\* a walk over ancestors() that never ends: the call does not return
Hang == -1

\* prefix_by_namespace that starts at the parent of the node
RECURSIVE prefix_by_namespaceSkipSelf(_, _, _, _)
prefix_by_namespaceSkipSelf(a, node_id, namespace_id, fuel) ==
    IF node_id = None THEN None
    ELSE IF fuel = 0 THEN Hang
    ELSE LET up == parent(a, node_id)
         IN  IF up # None /\ value_type(a, up) = "Element"
                /\ Get(a[up].value.namespace_info.to_prefix, namespace_id) # None
             THEN Get(a[up].value.namespace_info.to_prefix, namespace_id)
             ELSE prefix_by_namespaceSkipSelf(a, up, namespace_id, fuel - 1)

\* prefix_by_namespace: the first Element of node_id.ancestors() (the node
\* itself first) whose to_prefix map holds the namespace; fuel is the number
\* of nodes a walk without a parent cycle can visit
RECURSIVE prefix_by_namespace(_, _, _, _)
prefix_by_namespace(a, node_id, namespace_id, fuel) ==
    IF node_id = None THEN None
    ELSE IF fuel = 0 THEN Hang
    ELSE IF value_type(a, node_id) = "Element"
            /\ Get(a[node_id].value.namespace_info.to_prefix, namespace_id) # None
    THEN Get(a[node_id].value.namespace_info.to_prefix, namespace_id)
    ELSE prefix_by_namespace(a, parent(a, node_id), namespace_id, fuel - 1)

\* namespace_by_prefix that lets a binding further up override a nearer one
RECURSIVE namespace_by_prefixOutermost(_, _, _, _)
namespace_by_prefixOutermost(a, node_id, prefix_id, fuel) ==
    IF node_id = None THEN None
    ELSE IF fuel = 0 THEN Hang
    ELSE LET above == namespace_by_prefixOutermost(a, parent(a, node_id),
                                                   prefix_id, fuel - 1)
         IN  IF above # None THEN above
             ELSE IF value_type(a, node_id) = "Element"
             THEN Get(a[node_id].value.namespace_info.to_namespace, prefix_id)
             ELSE None

\* namespace_by_prefix: the same walk over the to_namespace maps
RECURSIVE namespace_by_prefix(_, _, _, _)
namespace_by_prefix(a, node_id, prefix_id, fuel) ==
    IF node_id = None THEN None
    ELSE IF fuel = 0 THEN Hang
    ELSE IF value_type(a, node_id) = "Element"
            /\ Get(a[node_id].value.namespace_info.to_namespace, prefix_id) # None
    THEN Get(a[node_id].value.namespace_info.to_namespace, prefix_id)
    ELSE namespace_by_prefix(a, parent(a, node_id), prefix_id, fuel - 1)

\* NodeLookup: the lookups of a name accessor in the context of a node
prefix_id_for_namespace_id(a, node, namespace_id) ==
    prefix_by_namespace(a, node, namespace_id, Len(a))

namespace_id_for_prefix_id(a, node, prefix_id) ==
    namespace_by_prefix(a, node, prefix_id, Len(a))

\* Name::new
Name(name, ns) == [name |-> name, namespace_id |-> ns]

\* the tables of XmlData::new: the empty namespace and the empty prefix
NewNamespaces == << <<>> >>
NewPrefixes == << <<>> >>

\* the tables after a caller interned the namespaces "u" (N1) and "v" (N2),
\* the prefix "p" (P) and the name "a" in no namespace, in N1 and in N2
CallerNamespaces == << <<>>, <<"u">>, <<"v">> >>
CallerPrefixes == << <<>>, <<"p">> >>
CallerNames ==
    << Name(<<"a">>, no_namespace_id), Name(<<"a">>, N1), Name(<<"a">>, N2) >>

NameIds == DOMAIN name_lookup

\* XmlNameRef::namespace_id
namespace_id(name_id) == name_lookup[name_id].namespace_id

\* XmlNameRef::local_name
local_name(name_id) == name_lookup[name_id].name

\* Result<_, Error> of the name accessor
OkValue(v) == [res |-> "Ok", value |-> v]
MissingPrefix(ns) == [res |-> "MissingPrefix", value |-> ns]

\* XmlNameRef::prefix_id in the context of a node
prefix_id(a, node, name_id) ==
    LET found == prefix_id_for_namespace_id(a, node, namespace_id(name_id))
    IN  IF found = Hang THEN [res |-> "Hang", value |-> None]
        ELSE IF found = None THEN MissingPrefix(namespace_id(name_id))
        ELSE OkValue(found)

\* XmlNameRef::prefix
prefix(a, node, name_id) ==
    LET r == prefix_id(a, node, name_id)
    IN  IF r.res # "Ok" THEN r ELSE OkValue(prefix_lookup[r.value])

\* XmlNameRef::fullname that always writes the colon
fullnameAlwaysColon(a, node, name_id) ==
    LET r == prefix(a, node, name_id)
    IN  IF r.res # "Ok" THEN r
        ELSE OkValue(r.value \o <<":">> \o local_name(name_id))

\* XmlNameRef::fullname
fullname(a, node, name_id) ==
    LET r == prefix(a, node, name_id)
    IN  IF r.res # "Ok" THEN r
        ELSE IF r.value # <<>>
        THEN OkValue(r.value \o <<":">> \o local_name(name_id))
        ELSE OkValue(local_name(name_id))

(***************************************************************************)
(* Interning (the lookups of XmlData) and the constructors of the name     *)
(* accessor.                                                               *)
(***************************************************************************)
\* the id of value in a lookup table, None when it was never interned
get_id(table, value) ==
    IF \E i \in DOMAIN table : table[i] = value
    THEN CHOOSE i \in DOMAIN table : table[i] = value
    ELSE None

\* the id of value, interned as the next id when it is new
get_id_mut(table, value) ==
    IF get_id(table, value) # None
    THEN [id |-> get_id(table, value), table |-> table]
    ELSE [id |-> Len(table) + 1, table |-> Append(table, value)]

\* name_ns_mut that looks the local name up without its namespace
name_ns_mutLocalOnly(names, name, ns) ==
    IF \E i \in DOMAIN names : names[i].name = name
    THEN [id |-> CHOOSE i \in DOMAIN names : names[i].name = name,
          table |-> names]
    ELSE [id |-> Len(names) + 1, table |-> Append(names, Name(name, ns))]

name_ns_mut(names, name, ns) == get_id_mut(names, Name(name, ns))

name_ns(names, name, ns) == get_id(names, Name(name, ns))

name_mut(names, name) == name_ns_mut(names, name, no_namespace_id)

name(names, nm) == name_ns(names, nm, no_namespace_id)

namespace_mut(namespaces, ns) == get_id_mut(namespaces, ns)

namespace(namespaces, ns) == get_id(namespaces, ns)

\* Xot::add_prefix, as from_prefix_name calls it
add_prefix(prefixes, pf) == get_id_mut(prefixes, pf)

\* what a constructor of the name accessor returns, and the tables it leaves
Constructed(res, name_id, prefixes, names) ==
    [res |-> res, name_id |-> name_id,
     prefix_lookup |-> prefixes, name_lookup |-> names]

\* from_prefix_name that interns the name before it resolves the prefix
from_prefix_nameInternFirst(a, prefixes, names, node, pf, local) ==
    LET p == add_prefix(prefixes, pf)
        ns == namespace_id_for_prefix_id(a, node, p.id)
        n == name_ns_mut(names, local, IF ns \in {None, Hang} THEN N1 ELSE ns)
    IN  IF ns = Hang THEN Constructed("Hang", None, p.table, names)
        ELSE IF ns = None
        THEN Constructed("UnknownPrefix", None, p.table, n.table)
        ELSE Constructed("Ok", n.id, p.table, n.table)

\* XmlNameRef::from_prefix_name in the context of a node
from_prefix_name(a, prefixes, names, node, pf, local) ==
    LET p == add_prefix(prefixes, pf)
        ns == namespace_id_for_prefix_id(a, node, p.id)
    IN  IF ns = Hang THEN Constructed("Hang", None, p.table, names)
        ELSE IF ns = None
        THEN Constructed("UnknownPrefix", None, p.table, names)
        ELSE LET n == name_ns_mut(names, local, ns)
             IN  Constructed("Ok", n.id, p.table, n.table)

\* str::find(':'): the position of the first colon, None when there is none
FindColon(str) ==
    IF \E i \in 1..Len(str) : str[i] = ":"
    THEN CHOOSE i \in 1..Len(str) :
            /\ str[i] = ":"
            /\ \A j \in 1..(i - 1) : str[j] # ":"
    ELSE None

\* XmlNameRef::from_fullname in the context of a node
from_fullname(a, prefixes, names, node, full) ==
    LET pos == FindColon(full)
    IN  IF pos # None
        THEN from_prefix_name(a, prefixes, names, node,
                              SubSeq(full, 1, pos - 1),
                              SubSeq(full, pos + 1, Len(full)))
        ELSE from_prefix_name(a, prefixes, names, node, <<>>, full)

\* XmlNameRef: a name id with the node that is its context
XmlNameRef(node, name_id) == [node |-> node, name_id |-> name_id]

\* impl PartialEq for XmlNameRef
eq(x, y) == x.name_id = y.name_id

\* impl Hash for XmlNameRef: what is fed to the hasher
hash(x) == x.name_id

(***************************************************************************)
(* The state machine: one document, and calls made with live handles (a    *)
(* removed handle must not be used again).  A call that panics ends the    *)
(* program; a call that never returns is no step.                          *)
(***************************************************************************)
\* Document.root: the handle of the document's Root node
DocumentRoot == 1

Live(a) == {n \in Slots(a) : ~is_removed(a, n)}

\* every Text content stays within the bound of the model
WithinBounds(a) ==
    \A n \in Slots(a) : Len(a[n].value.text) <= MaxLen

\* an arena node with the given value and links
Linked(value, par, previous, next, fc, lc) ==
    [removed |-> FALSE, value |-> value, parent |-> par,
     previous_sibling |-> previous, next_sibling |-> next,
     first_child |-> fc, last_child |-> lc]

NoCall == [op |-> "init", node |-> None, other |-> None,
           res |-> "Ok", why |-> ""]

CallerLookups ==
    /\ namespace_lookup = CallerNamespaces
    /\ prefix_lookup = CallerPrefixes
    /\ name_lookup = CallerNames

\* the smallest document: a Root with its root element
Init ==
    /\ arena = << Linked(XmlValue("Root", <<>>), None, None, None, 2, 2),
                  Linked(XmlValue("Element", <<>>), 1, None, None, None, None) >>
    /\ free = <<>>
    /\ last = NoCall
    /\ CallerLookups

\* the document <e>a<!-- -->b</e>
InitDoc ==
    /\ arena = << Linked(XmlValue("Root", <<>>), None, None, None, 2, 2),
                  Linked(XmlValue("Element", <<>>), 1, None, None, 3, 5),
                  Linked(XmlValue("Text", <<"a">>), 2, None, 4, None, None),
                  Linked(XmlValue("Comment", <<>>), 2, 3, 5, None, None),
                  Linked(XmlValue("Text", <<"b">>), 2, 4, None, None, None) >>
    /\ free = <<>>
    /\ last = NoCall
    /\ CallerLookups

Running == last.res # "Panic"

CanAllocate == free # <<>> \/ Len(arena) < MaxNodes

Created(op, r) ==
    /\ arena' = r.arena
    /\ free' = r.free
    /\ UNCHANGED lookup_vars
    /\ last' = [op |-> op, node |-> r.node, other |-> None,
                res |-> "Ok", why |-> ""]

NewText ==
    /\ Running /\ CanAllocate
    /\ \E t \in TextInputs : Created("new_text", new_text(arena, free, t))

NewElement ==
    /\ Running /\ CanAllocate
    /\ Created("new_element", new_element(arena, free))

NewComment ==
    /\ Running /\ CanAllocate
    /\ Created("new_comment", new_comment(arena, free))

NewProcessingInstruction ==
    /\ Running /\ CanAllocate
    /\ Created("new_processing_instruction",
               new_processing_instruction(arena, free))

\* the call op(other, node) returned o
Called(op, node, other, o) ==
    /\ o.res # "Hang"
    /\ WithinBounds(o.arena)
    /\ arena' = o.arena
    /\ free' = o.free
    /\ UNCHANGED lookup_vars
    /\ last' = [op |-> op, node |-> node, other |-> other,
                res |-> o.res, why |-> o.why]

Append_ ==
    /\ Running
    /\ \E p \in Live(arena), c \in Live(arena) :
          Called("append", c, p, append(arena, free, p, c))

Prepend ==
    /\ Running
    /\ \E p \in Live(arena), c \in Live(arena) :
          Called("prepend", c, p, prepend(arena, free, p, c))

InsertAfter ==
    /\ Running
    /\ \E r \in Live(arena), c \in Live(arena) :
          Called("insert_after", c, r, insert_after(arena, free, r, c))

InsertBefore ==
    /\ Running
    /\ \E r \in Live(arena), c \in Live(arena) :
          Called("insert_before", c, r, insert_before(arena, free, r, c))

Detach ==
    /\ Running
    /\ \E n \in Live(arena) :
          Called("detach", n, None, detach(arena, free, n))

Remove ==
    /\ Running
    /\ \E n \in Live(arena) :
          Called("remove", n, None, remove(arena, free, n))

Next ==
    \/ NewText
    \/ NewElement
    \/ NewComment
    \/ NewProcessingInstruction
    \/ Append_
    \/ Prepend
    \/ InsertAfter
    \/ InsertBefore
    \/ Detach
    \/ Remove

\* node creation and the structural operations, from the smallest document
Spec == Init /\ [][Next]_vars

NextDoc ==
    \/ Append_
    \/ Prepend
    \/ InsertAfter
    \/ InsertBefore
    \/ Detach
    \/ Remove

\* the structural operations on the nodes of the document <e>a<!-- -->b</e>
SpecDoc == InitDoc /\ [][NextDoc]_vars

\* the document <e>a<!-- -->b</e> and an unattached processing instruction
InitRemoval ==
    /\ arena = << Linked(XmlValue("Root", <<>>), None, None, None, 2, 2),
                  Linked(XmlValue("Element", <<>>), 1, None, None, 3, 5),
                  Linked(XmlValue("Text", <<"a">>), 2, None, 4, None, None),
                  Linked(XmlValue("Comment", <<>>), 2, 3, 5, None, None),
                  Linked(XmlValue("Text", <<"b">>), 2, 4, None, None, None),
                  Linked(XmlValue("ProcessingInstruction", <<>>),
                         None, None, None, None, None) >>
    /\ free = <<>>
    /\ last = NoCall
    /\ CallerLookups

NextRemoval ==
    \/ Append_
    \/ Detach
    \/ Remove

\* a caller that appends, detaches and removes the nodes of that document
SpecRemoval == InitRemoval /\ [][NextRemoval]_vars

\* the declarations the outer element may start with
OuterDeclarations == {NoDeclarations, Declare(P, N1)}

\* the document <outer><inner>a</inner><!-- --></outer>: the inner element
\* declares the prefix p as N2, the outer element declares p as N1 or
\* declares nothing
InitNs ==
    /\ \E o \in OuterDeclarations :
          arena = << Linked(XmlValue("Root", <<>>), None, None, None, 2, 2),
                     Linked(ElementValue(o), 1, None, None, 3, 5),
                     Linked(ElementValue(Declare(P, N2)), 2, None, 5, 4, 4),
                     Linked(XmlValue("Text", <<"a">>), 3, None, None, None, None),
                     Linked(XmlValue("Comment", <<>>), 2, 3, None, None, None) >>
    /\ free = <<>>
    /\ last = NoCall
    /\ CallerLookups

\* the structural operations on the nodes of that document
SpecNs == InitNs /\ [][NextDoc]_vars

\* the strings a caller interns and builds names from
LocalInputs == {<<"a">>, <<"b">>}
NamespaceInputs == {<<>>, <<"u">>, <<"v">>}
PrefixInputs == {<<>>, <<"p">>, <<"q">>}
FullnameInputs ==
    {<<"a">>, <<"p", ":", "a">>, <<"q", ":", "a">>, <<"p", ":", "a", ":", "b">>}

\* the document <outer xmlns="u"><inner xmlns:p="u">a</inner></outer> and
\* an unattached comment, in a store whose tables hold the namespace "u"
\* and the prefix "p" and no name yet
InitNames ==
    /\ arena = << Linked(XmlValue("Root", <<>>), None, None, None, 2, 2),
                  Linked(ElementValue(Declare(empty_prefix_id, N1)),
                         1, None, None, 3, 3),
                  Linked(ElementValue(Declare(P, N1)), 2, None, None, 4, 4),
                  Linked(XmlValue("Text", <<"a">>), 3, None, None, None, None),
                  Linked(XmlValue("Comment", <<>>),
                         None, None, None, None, None) >>
    /\ free = <<>>
    /\ last = NoCall
    /\ namespace_lookup = << <<>>, <<"u">> >>
    /\ prefix_lookup = CallerPrefixes
    /\ name_lookup = <<>>

\* the call op(input) in the context of node returned value
NameCall(op, node, input, res, value) ==
    /\ last' = [op |-> op, node |-> node, other |-> None, res |-> res,
                why |-> "", input |-> input, value |-> value]
    /\ UNCHANGED <<arena, free>>

\* a call that interns a name: r is what name_mut / name_ns_mut returned
Interned(op, input, r) ==
    /\ Len(r.table) <= MaxNames
    /\ name_lookup' = r.table
    /\ UNCHANGED <<namespace_lookup, prefix_lookup>>
    /\ NameCall(op, None, input, "Ok", r.id)

NameMut ==
    \E local \in LocalInputs :
        Interned("name_mut", <<local>>, name_mut(name_lookup, local))

NameNsMut ==
    \E local \in LocalInputs, ns \in DOMAIN namespace_lookup :
        Interned("name_ns_mut", <<local, ns>>,
                 name_ns_mut(name_lookup, local, ns))

NamespaceMut ==
    \E ns \in NamespaceInputs :
        LET r == namespace_mut(namespace_lookup, ns)
        IN  /\ namespace_lookup' = r.table
            /\ UNCHANGED <<prefix_lookup, name_lookup>>
            /\ NameCall("namespace_mut", None, <<ns>>, "Ok", r.id)

\* a constructor of the name accessor returned r
Construct(op, node, input, r) ==
    /\ r.res # "Hang"
    /\ Len(r.name_lookup) <= MaxNames
    /\ prefix_lookup' = r.prefix_lookup
    /\ name_lookup' = r.name_lookup
    /\ UNCHANGED namespace_lookup
    /\ NameCall(op, node, input, r.res, r.name_id)

FromPrefixName ==
    \E node \in Live(arena), pf \in PrefixInputs, local \in LocalInputs :
        Construct("from_prefix_name", node, <<pf, local>>,
                  from_prefix_name(arena, prefix_lookup, name_lookup,
                                   node, pf, local))

FromFullname ==
    \E node \in Live(arena), full \in FullnameInputs :
        Construct("from_fullname", node, <<full>>,
                  from_fullname(arena, prefix_lookup, name_lookup, node, full))

\* fullname() of the accessor of an interned name in the context of a node
Fullname ==
    \E node \in Live(arena), name_id \in NameIds :
        LET r == fullname(arena, node, name_id)
        IN  /\ r.res # "Hang"
            /\ UNCHANGED lookup_vars
            /\ NameCall("fullname", node, <<name_id>>, r.res, r.value)

NextNames ==
    \/ NameMut
    \/ NameNsMut
    \/ NamespaceMut
    \/ FromPrefixName
    \/ FromFullname
    \/ Fullname

\* a caller that interns names and namespaces and builds and reads name
\* accessors in the contexts of that document
SpecNames == InitNames /\ [][NextNames]_vars

(***************************************************************************)
(* Properties.                                                             *)
(***************************************************************************)
InsertOps == {"append", "prepend", "insert_after", "insert_before"}
SiblingOps == {"insert_after", "insert_before"}
Errors == {"InvalidOperation", "NodeError"}

\* the parent the inserted node is to get: the parent argument of
\* append/prepend, the parent of the reference node of insert_after/before
EffectiveParent(a, op, other) ==
    IF op \in SiblingOps THEN parent(a, other) ELSE other

\* n is a Text node whose next sibling is a Text node
AdjacentText(a, n) ==
    /\ is_text(a, n)
    /\ next_sibling(a, n) # None
    /\ is_text(a, next_sibling(a, n))

\* C1: after every operation, no live Text node has a Text node as its next
\* sibling.
C1_NoAdjacentText ==
    \A n \in Live(arena) : ~AdjacentText(arena, n)

ElementChildren(a, r) ==
    {i \in 1..Len(children(a, r)) : value_type(a, children(a, r)[i]) = "Element"}

TextChildren(a, r) ==
    {i \in 1..Len(children(a, r)) : value_type(a, children(a, r)[i]) = "Text"}

\* C2: in every reachable state the children of every Root node hold at most
\* one Element and no Text node.
C2_RootChildren ==
    \A r \in Live(arena) :
        is_root(arena, r) =>
            /\ Cardinality(ElementChildren(arena, r)) <= 1
            /\ TextChildren(arena, r) = {}

\* C2 witness: a Text node was offered as a child of the Root, and the Root
\* holds its element only.
C2_Witness ==
    /\ last.op \in InsertOps
    /\ last.res = "InvalidOperation"
    /\ EffectiveParent(arena, last.op, last.other) = DocumentRoot
    /\ is_text(arena, last.node)
    /\ Cardinality(ElementChildren(arena, DocumentRoot)) = 1

\* C3: an insertion that returns an error leaves every node as it was: same
\* links, same value, same liveness.
C3_ErrorLeavesTreeUnchanged ==
    [][(last'.op \in InsertOps /\ last'.res \in Errors)
          => arena' = arena]_vars

\* C3 witness: an insertion of an attached node passed validation and was
\* then refused by the arena.
C3_Witness ==
    /\ last.op \in InsertOps
    /\ last.res = "NodeError"
    /\ parent(arena, last.node) # None

\* C4: the document's Root always has an Element child, so root_element
\* finds it.
C4_RootElementExists ==
    /\ root_element(arena, DocumentRoot) # None
    /\ ~is_removed(arena, root_element(arena, DocumentRoot))
    /\ value_type(arena, root_element(arena, DocumentRoot)) = "Element"

\* C4 witness: a removal of the root element was refused, and root_element
\* has to step over a Comment to find the Element.
C4_Witness ==
    /\ last.op \in {"detach", "remove"}
    /\ last.res = "InvalidOperation"
    /\ last.node = root_element(arena, DocumentRoot)
    /\ first_child(arena, DocumentRoot) # last.node

\* C5: inserting an Element or a Text node whose effective parent is a Root
\* fails with InvalidOperation and leaves the Root's children as they were.
C5_NoElementOrTextUnderRoot ==
    [][(/\ last'.op \in InsertOps
        /\ value_type(arena, last'.node) \in {"Element", "Text"}
        /\ EffectiveParent(arena, last'.op, last'.other) # None
        /\ is_root(arena, EffectiveParent(arena, last'.op, last'.other)))
          => /\ last'.res = "InvalidOperation"
             /\ children(arena', EffectiveParent(arena, last'.op, last'.other))
                  = children(arena, EffectiveParent(arena, last'.op, last'.other))
      ]_vars

\* C5 witness: an unattached Element was offered as a sibling of the root
\* element and refused.
C5_Witness ==
    /\ last.op \in SiblingOps
    /\ last.res = "InvalidOperation"
    /\ value_type(arena, last.node) = "Element"
    /\ parent(arena, last.node) = None
    /\ parent(arena, last.other) = DocumentRoot

\* C6: an insertion whose moved node is a Root or the root element fails with
\* InvalidOperation, whatever the target.
C6_RootAndRootElementStay ==
    [][(/\ last'.op \in InsertOps
        /\ \/ is_root(arena, last'.node)
           \/ /\ value_type(arena, last'.node) = "Element"
              /\ parent(arena, last'.node) = DocumentRoot)
          => last'.res = "InvalidOperation"]_vars

\* C6 witness: the root element was offered as a child of another element
\* and refused.
C6_Witness ==
    /\ last.op \in {"append", "prepend"}
    /\ last.res = "InvalidOperation"
    /\ parent(arena, last.node) = DocumentRoot
    /\ value_type(arena, last.node) = "Element"
    /\ value_type(arena, last.other) = "Element"
    /\ last.other # last.node

\* C7: insert_before and insert_after fail with InvalidOperation when the
\* reference node has no parent, and the node is not linked to it.
C7_NoSiblingOfParentless ==
    [][(/\ last'.op \in SiblingOps
        /\ parent(arena, last'.other) = None)
          => /\ last'.res = "InvalidOperation"
             /\ arena'[last'.node] = arena[last'.node]
             /\ arena'[last'.other] = arena[last'.other]]_vars

\* C7 witness: a node was offered as a sibling of a detached node that is
\* not the Root, and refused.
C7_Witness ==
    /\ last.op \in SiblingOps
    /\ last.res = "InvalidOperation"
    /\ parent(arena, last.other) = None
    /\ ~is_root(arena, last.other)
    /\ last.other # last.node

\* node is put where the call asked for: last or first among the children
\* of other, or right after or right before other
LinkedAt(a, a2, op, node, other) ==
    CASE op = "append" ->
            /\ parent(a2, node) = other
            /\ last_child(a2, other) = node
            /\ previous_sibling(a2, node) = last_child(a, other)
            /\ next_sibling(a2, node) = None
      [] op = "prepend" ->
            /\ parent(a2, node) = other
            /\ first_child(a2, other) = node
            /\ next_sibling(a2, node) = first_child(a, other)
            /\ previous_sibling(a2, node) = None
      [] op = "insert_after" ->
            /\ parent(a2, node) = parent(a, other)
            /\ next_sibling(a2, other) = node
            /\ previous_sibling(a2, node) = other
            /\ next_sibling(a2, node) = next_sibling(a, other)
      [] op = "insert_before" ->
            /\ parent(a2, node) = parent(a, other)
            /\ previous_sibling(a2, other) = node
            /\ next_sibling(a2, node) = other
            /\ previous_sibling(a2, node) = previous_sibling(a, other)

\* the call inserts an unattached Comment or ProcessingInstruction at a
\* place that has a parent
CommentInsertion(a, op, node, other) ==
    /\ op \in InsertOps
    /\ value_type(a, node) \in {"Comment", "ProcessingInstruction"}
    /\ parent(a, node) = None
    /\ EffectiveParent(a, op, other) # None

TargetInsideNode(a, op, node, other) ==
    IF op \in SiblingOps THEN parent(a, other) = node
    ELSE AncestorWalk(a, other, node, Len(a)) = "yes"

MergeStep ==
    /\ last'.op \in InsertOps
    /\ last'.res = "Ok"
    /\ is_text(arena, last'.node)
    /\ is_removed(arena', last'.node)

\* the neighbouring Text node the four cases of the merge name: the last
\* child, the first child, or the reference node (for insert_before when no
\* Text node precedes the reference); None when the case does not apply
MergeTarget(a, op, node, other) ==
    LET m == CASE op = "append" -> last_child(a, other)
               [] op = "prepend" -> first_child(a, other)
               [] op = "insert_after" -> other
               [] op = "insert_before" ->
                    IF /\ previous_sibling(a, other) # None
                       /\ is_text(a, previous_sibling(a, other))
                    THEN None ELSE other
    IN  IF m # None /\ m # node /\ is_text(a, m) THEN m ELSE None

\* the merged content in document order
MergedText(a, op, node, m) ==
    IF op \in {"append", "insert_after"}
    THEN text_str(a, m) \o text_str(a, node)
    ELSE text_str(a, node) \o text_str(a, m)

\* no live node has a link to n
NotLinked(a, n) ==
    \A k \in Live(a) :
        /\ parent(a, k) # n
        /\ first_child(a, k) # n
        /\ last_child(a, k) # n
        /\ next_sibling(a, k) # n
        /\ previous_sibling(a, k) # n

\* C9 as stated: a merge yields the two contents in document order, leaves
\* the parent's child count unchanged, and the inserted node is not linked.
C9_Original ==
    [][(/\ MergeStep
        /\ MergeTarget(arena, last'.op, last'.node, last'.other) # None)
          => LET m == MergeTarget(arena, last'.op, last'.node, last'.other)
                 p == EffectiveParent(arena, last'.op, last'.other)
             IN  /\ ~is_removed(arena', m)
                 /\ text_str(arena', m)
                      = MergedText(arena, last'.op, last'.node, m)
                 /\ Len(children(arena', p)) = Len(children(arena, p))
                 /\ NotLinked(arena', last'.node)
      ]_vars

\* C9 amended: a merge yields the two contents in document order and the
\* inserted node is not linked; the parent's child count is unchanged when
\* the inserted node was neither a child of that parent nor that parent
\* itself before the call.
C9_MergeInDocumentOrder ==
    [][(/\ MergeStep
        /\ MergeTarget(arena, last'.op, last'.node, last'.other) # None)
          => LET m == MergeTarget(arena, last'.op, last'.node, last'.other)
                 p == EffectiveParent(arena, last'.op, last'.other)
             IN  /\ ~is_removed(arena', m)
                 /\ text_str(arena', m)
                      = MergedText(arena, last'.op, last'.node, m)
                 /\ (parent(arena, last'.node) # p /\ last'.node # p)
                      => Len(children(arena', p)) = Len(children(arena, p))
                 /\ NotLinked(arena', last'.node)
      ]_vars

\* C9 witness: the detached text "b" was inserted after the text "a", which
\* now reads "ab", and the inserted node is gone.
C9_Witness ==
    /\ last.op = "insert_after"
    /\ last.res = "Ok"
    /\ is_removed(arena, last.node)
    /\ last.node \in Slots(arena)
    /\ text_str(arena, last.other) = <<"a", "b">>
    /\ Len(children(arena, parent(arena, last.other))) = 2

\* C10: insert_after of a Text node next to a reference whose next sibling
\* is a Text node merges the content into the front of that sibling, and
\* insert_before next to a reference whose previous sibling is a Text node
\* merges it onto the end of that sibling; the inserted node is freed.
C10_MergeWithOtherNeighbour ==
    [][(/\ last'.op \in SiblingOps
        /\ last'.node # last'.other
        /\ is_text(arena, last'.node))
          => LET m == IF last'.op = "insert_after"
                      THEN next_sibling(arena, last'.other)
                      ELSE previous_sibling(arena, last'.other)
             IN  (m # None /\ m # last'.node /\ is_text(arena, m))
                   => /\ last'.res = "Ok"
                      /\ is_removed(arena', last'.node)
                      /\ text_str(arena', m) =
                           IF last'.op = "insert_after"
                           THEN text_str(arena, last'.node) \o text_str(arena, m)
                           ELSE text_str(arena, m) \o text_str(arena, last'.node)
      ]_vars

(***************************************************************************)
(* Properties of detach and remove.                                        *)
(***************************************************************************)
RemovalOps == {"detach", "remove"}

\* the node n and every node below it
Subtree(a, n) ==
    {d \in Slots(a) : AncestorWalk(a, d, n, Len(a)) = "yes"}

\* seq without the nodes of S
Without(seq, S) == SelectSeq(seq, LAMBDA x : x \notin S)

\* n sits between a Text previous sibling and a Text next sibling
BetweenTexts(a, n) ==
    /\ previous_sibling(a, n) # None
    /\ is_text(a, previous_sibling(a, n))
    /\ next_sibling(a, n) # None
    /\ is_text(a, next_sibling(a, n))

\* n is an Element whose parent is a Root
IsRootElement(a, n) ==
    /\ value_type(a, n) = "Element"
    /\ parent(a, n) # None
    /\ value_type(a, parent(a, n)) = "Root"

\* C11: when detach or remove is applied to a node whose previous sibling is
\* a Text node with content a and whose next sibling is a Text node with
\* content b, afterwards the previous sibling holds a followed by b, the
\* former next sibling is removed, and the parent's children are the former
\* children without the node and without the former next sibling (one text
\* sibling stands in place of the three nodes).
C11_RemovalMergesNeighbours ==
    [][(/\ last'.op \in RemovalOps
        /\ BetweenTexts(arena, last'.node))
          => LET n == last'.node
                 p == previous_sibling(arena, n)
                 x == next_sibling(arena, n)
                 par == parent(arena, n)
             IN  /\ last'.res = "Ok"
                 /\ text_str(arena', p) = text_str(arena, p) \o text_str(arena, x)
                 /\ is_removed(arena', x)
                 /\ par # None =>
                       children(arena', par)
                           = Without(children(arena, par), {n, x})]_vars

\* C12: detach of any node other than a Root or the root element succeeds;
\* afterwards the node has no parent and no siblings, the node and all its
\* descendants are live, and the values and links inside the detached
\* subtree are as before.
C12_DetachKeepsSubtree ==
    [][(/\ last'.op = "detach"
        /\ ~is_root(arena, last'.node)
        /\ ~IsRootElement(arena, last'.node))
          => LET n == last'.node
             IN  /\ last'.res = "Ok"
                 /\ parent(arena', n) = None
                 /\ previous_sibling(arena', n) = None
                 /\ next_sibling(arena', n) = None
                 /\ \A d \in Subtree(arena, n) :
                       /\ ~is_removed(arena', d)
                       /\ arena'[d].value = arena[d].value
                       /\ first_child(arena', d) = first_child(arena, d)
                       /\ last_child(arena', d) = last_child(arena, d)
                       /\ d # n =>
                             /\ parent(arena', d) = parent(arena, d)
                             /\ previous_sibling(arena', d)
                                    = previous_sibling(arena, d)
                             /\ next_sibling(arena', d)
                                    = next_sibling(arena, d)]_vars

\* a link of node m points at n
PointsAt(a, m, n) ==
    \/ parent(a, m) = n
    \/ previous_sibling(a, m) = n
    \/ next_sibling(a, m) = n
    \/ first_child(a, m) = n
    \/ last_child(a, m) = n

\* C13: a successful remove(node) makes is_removed true for node and every
\* descendant of node, leaves no live node with a link to node, and removes
\* no other node except a former next-sibling Text node that is absorbed by
\* the Text previous sibling.
C13_RemoveFreesSubtree ==
    [][(/\ last'.op = "remove"
        /\ last'.res = "Ok")
          => LET n == last'.node
             IN  /\ \A d \in Subtree(arena, n) : is_removed(arena', d)
                 /\ \A m \in Live(arena') : ~PointsAt(arena', m, n)
                 /\ \A m \in Live(arena) \ Subtree(arena, n) :
                       is_removed(arena', m) =>
                           /\ m = next_sibling(arena, n)
                           /\ BetweenTexts(arena, n)]_vars

\* C13 witness: a node with a live child was removed, and the child went
\* with it.
C13_Witness ==
    /\ last.op = "remove"
    /\ last.res = "Ok"
    /\ is_removed(arena, last.node)
    /\ first_child(arena, last.node) # None
    /\ is_removed(arena, first_child(arena, last.node))

\* C14: detach and remove fail with InvalidOperation when the node is a Root
\* or an Element whose parent is a Root, and then no link, value or liveness
\* flag of any node changes.
C14_RootRemovalRefused ==
    [][(/\ last'.op \in RemovalOps
        /\ \/ is_root(arena, last'.node)
           \/ IsRootElement(arena, last'.node))
          => /\ last'.res = "InvalidOperation"
             /\ arena' = arena
             /\ free' = free]_vars

\* C14 witness: the removal of the root element was refused while it had a
\* child to lose.
C14_Witness ==
    /\ last.op \in RemovalOps
    /\ last.res = "InvalidOperation"
    /\ IsRootElement(arena, last.node)
    /\ first_child(arena, last.node) # None

(***************************************************************************)
(* Link consistency and liveness of handles.                               *)
(***************************************************************************)
StructuralOps == InsertOps \cup RemovalOps

\* reverse_children(node): last_child, then previous_sibling until None
RECURSIVE SiblingsBack(_, _, _)
SiblingsBack(a, n, fuel) ==
    IF n = None \/ fuel = 0 THEN <<>>
    ELSE <<n>> \o SiblingsBack(a, previous_sibling(a, n), fuel - 1)

reverse_children(a, n) == SiblingsBack(a, last_child(a, n), Len(a))

Reverse(seq) == [i \in 1..Len(seq) |-> seq[Len(seq) + 1 - i]]

Range(seq) == {seq[i] : i \in 1..Len(seq)}

\* the links around p agree with each other
LinksConsistent(a, p) ==
    LET fwd == children(a, p)
        bwd == reverse_children(a, p)
    IN  /\ Cardinality(Range(fwd)) = Len(fwd)
        /\ Range(fwd) = {n \in Live(a) : parent(a, n) = p}
        /\ IF fwd = <<>> THEN last_child(a, p) = None
           ELSE /\ fwd[Len(fwd)] = last_child(a, p)
                /\ next_sibling(a, fwd[Len(fwd)]) = None
                /\ previous_sibling(a, fwd[1]) = None
        /\ bwd = Reverse(fwd)

\* C15: after every successful structural operation, for every live node p,
\* following next_sibling from first_child(p) visits exactly the live nodes
\* whose parent is p, each once, and ends at last_child(p); following
\* previous_sibling from last_child(p) visits the same nodes in reverse.
C15_LinksConsistent ==
    (last.op \in StructuralOps /\ last.res = "Ok")
        => \A p \in Live(arena) : LinksConsistent(arena, p)

\* C15 witness: a successful move left a parent with two children, linked
\* both ways.
C15_Witness ==
    /\ last.op \in InsertOps
    /\ last.res = "Ok"
    /\ ~is_removed(arena, last.node)
    /\ parent(arena, last.node) # None
    /\ Len(children(arena, parent(arena, last.node))) >= 2
    /\ LinksConsistent(arena, parent(arena, last.node))

\* C16: once is_removed(h) is true for a handle h it stays true after every
\* later operation, the creation of nodes included.
C16_RemovedStaysRemoved ==
    [][\A h \in Slots(arena) :
          is_removed(arena, h) => is_removed(arena', h)]_vars

(***************************************************************************)
(* Properties of namespace resolution.                                     *)
(***************************************************************************)
\* the node n and its ancestors, nearest first
RECURSIVE PathFrom(_, _, _)
PathFrom(a, n, fuel) ==
    IF n = None \/ fuel = 0 THEN <<>>
    ELSE <<n>> \o PathFrom(a, parent(a, n), fuel - 1)

AncestorPath(a, n) == PathFrom(a, n, Len(a))

Declarations(a, n) == a[n].value.namespace_info

\* the positions on the path of n of the Elements that declare prefix p
DeclaringPrefix(a, n, p) ==
    {i \in 1..Len(AncestorPath(a, n)) :
        /\ value_type(a, AncestorPath(a, n)[i]) = "Element"
        /\ p \in DOMAIN Declarations(a, AncestorPath(a, n)[i]).to_namespace}

\* the positions on the path of n of the Elements that declare namespace ns
DeclaringNamespace(a, n, ns) ==
    {i \in 1..Len(AncestorPath(a, n)) :
        /\ value_type(a, AncestorPath(a, n)[i]) = "Element"
        /\ ns \in DOMAIN Declarations(a, AncestorPath(a, n)[i]).to_prefix}

Nearest(S) == CHOOSE i \in S : \A j \in S : i <= j

\* C17: namespace_by_prefix(node, p) and prefix_by_namespace(node, ns) return
\* the binding declared at the nearest Element, on the path from the node
\* (itself included) to the root, that declares p (respectively ns).
C17_NearestDeclarationWins ==
    \A n \in Live(arena) :
        /\ \A p \in PrefixIds :
              DeclaringPrefix(arena, n, p) # {} =>
                  namespace_id_for_prefix_id(arena, n, p)
                    = Declarations(arena,
                        AncestorPath(arena, n)[Nearest(DeclaringPrefix(arena, n, p))]
                      ).to_namespace[p]
        /\ \A ns \in NamespaceIds :
              DeclaringNamespace(arena, n, ns) # {} =>
                  prefix_id_for_namespace_id(arena, n, ns)
                    = Declarations(arena,
                        AncestorPath(arena, n)[Nearest(DeclaringNamespace(arena, n, ns))]
                      ).to_prefix[ns]

\* C17 witness: after a move, the outer element declares p as N1 and the
\* inner element declares p as N2; p resolves to N2 at the text inside the
\* inner element and to N1 at the comment next to the inner element.
C17_Witness ==
    /\ last.op \in InsertOps
    /\ last.res = "Ok"
    /\ Declarations(arena, 2) = Declare(P, N1)
    /\ Declarations(arena, 3) = Declare(P, N2)
    /\ parent(arena, 3) = 2
    /\ parent(arena, 4) = 3
    /\ parent(arena, 5) = 2
    /\ namespace_id_for_prefix_id(arena, 3, P) = N2
    /\ namespace_id_for_prefix_id(arena, 4, P) = N2
    /\ namespace_id_for_prefix_id(arena, 5, P) = N1
    /\ prefix_id_for_namespace_id(arena, 4, N2) = P

C19_DeclarationsPreserved ==
    [][last'.op \in StructuralOps =>
          /\ \A n \in Live(arena) \cap Live(arena') :
                value_type(arena, n) = "Element" =>
                    Declarations(arena', n) = Declarations(arena, n)
          /\ last'.res = "Ok" =>
                \A m \in Live(arena') \ Subtree(arena, last'.node) :
                    /\ \A p \in PrefixIds :
                          namespace_id_for_prefix_id(arena', m, p)
                              = namespace_id_for_prefix_id(arena, m, p)
                    /\ \A ns \in NamespaceIds :
                          prefix_id_for_namespace_id(arena', m, ns)
                              = prefix_id_for_namespace_id(arena, m, ns)]_vars

\* C19 witness: the inner element, with its declaration of p as N2, was
\* detached from the outer element, which declares p as N1: the declaration
\* is still stored, and p still resolves to N2 at the text inside it.
C19_Witness ==
    /\ last.op = "detach"
    /\ last.res = "Ok"
    /\ last.node = 3
    /\ parent(arena, 3) = None
    /\ parent(arena, 4) = 3
    /\ Declarations(arena, 2) = Declare(P, N1)
    /\ Declarations(arena, 3) = Declare(P, N2)
    /\ namespace_id_for_prefix_id(arena, 4, P) = N2

\* C20: for a name whose namespace is the "no namespace" sentinel, prefix()
\* of the name accessor returns the empty prefix in the context of every
\* node.
C20_NoNamespaceHasEmptyPrefix ==
    \A n \in Live(arena) : \A name_id \in NameIds :
        namespace_id(name_id) = no_namespace_id =>
            /\ prefix(arena, n, name_id).res = "Ok"
            /\ prefix(arena, n, name_id).value = prefix_lookup[empty_prefix_id]

(***************************************************************************)
(* Properties of the name accessor and of interning.                       *)
(***************************************************************************)
\* the prefix bound to namespace ns at the nearest declaring Element of the
\* path of n (some Element of the path declares ns)
BoundPrefix(a, n, ns) ==
    Declarations(a, AncestorPath(a, n)[Nearest(DeclaringNamespace(a, n, ns))]
                ).to_prefix[ns]

\* the namespace bound to prefix p at the nearest declaring Element of the
\* path of n (some Element of the path declares p)
BoundNamespace(a, n, p) ==
    Declarations(a, AncestorPath(a, n)[Nearest(DeclaringPrefix(a, n, p))]
                ).to_namespace[p]

PrefixIsBound(a, prefixes, n, pf) ==
    \E id \in DOMAIN prefixes :
        /\ prefixes[id] = pf
        /\ DeclaringPrefix(a, n, id) # {}

\* the number of characters of str in front of its first colon
BeforeColon(str) ==
    CHOOSE k \in 0..Len(str) :
        /\ \A i \in 1..k : str[i] # ":"
        /\ k = Len(str) \/ str[k + 1] = ":"

\* C22: from_prefix_name fails with UnknownPrefix exactly when the prefix has
\* no namespace binding in the context, and then the name table is as
\* before; when it succeeds the returned id is the id of the local name in
\* the bound namespace.  from_fullname returns what from_prefix_name returns,
\* and leaves the tables it leaves, on the part in front of the first colon
\* and the part behind it (the empty prefix and the whole string when there
\* is no colon).
C22_UnknownPrefixAndSplit ==
    [][/\ last'.op = "from_prefix_name" =>
            LET pf == last'.input[1]
                local == last'.input[2]
                known == PrefixIsBound(arena, prefix_lookup', last'.node, pf)
            IN  /\ last'.res = "UnknownPrefix" <=> ~known
                /\ last'.res = "Ok" <=> known
                /\ last'.res = "UnknownPrefix" => name_lookup' = name_lookup
                /\ last'.res = "Ok" =>
                      name_lookup'[last'.value]
                        = Name(local,
                               BoundNamespace(arena, last'.node,
                                              get_id(prefix_lookup', pf)))
       /\ last'.op = "from_fullname" =>
            LET full == last'.input[1]
                k == BeforeColon(full)
                r == from_prefix_name(arena, prefix_lookup, name_lookup,
                         last'.node,
                         IF k = Len(full) THEN <<>> ELSE SubSeq(full, 1, k),
                         IF k = Len(full) THEN full
                         ELSE SubSeq(full, k + 2, Len(full)))
            IN  /\ last'.res = r.res
                /\ last'.value = r.name_id
                /\ name_lookup' = r.name_lookup
                /\ prefix_lookup' = r.prefix_lookup]_vars

\* C22 witness: from_prefix_name was called with the prefix "q", which no
\* element declares, and failed; the prefix was interned, no name was.
C22_Witness ==
    /\ last.op = "from_prefix_name"
    /\ last.res = "UnknownPrefix"
    /\ last.input[1] = <<"q">>
    /\ get_id(prefix_lookup, <<"q">>) # None
    /\ name_lookup = <<>>

\* the key of a request to name_mut / name_ns_mut
RequestedName(op, input) ==
    IF op = "name_mut" THEN Name(input[1], no_namespace_id)
    ELSE Name(input[1], input[2])

\* C23: the id name_mut / name_ns_mut returns is the id of the requested
\* (local name, namespace) and of no other key: no two ids of the table hold
\* the same key, an id handed out keeps its key for ever, and two name
\* accessors compare equal and hash equal when they hold the same NameId,
\* whatever the contexts and the prefixes they were built through.
C23_InterningIsAFunction ==
    [][/\ last'.op \in {"name_mut", "name_ns_mut"} =>
            name_lookup'[last'.value] = RequestedName(last'.op, last'.input)
       /\ \A i \in DOMAIN name_lookup :
            /\ i \in DOMAIN name_lookup'
            /\ name_lookup'[i] = name_lookup[i]
       /\ \A i \in DOMAIN namespace_lookup :
            /\ i \in DOMAIN namespace_lookup'
            /\ namespace_lookup'[i] = namespace_lookup[i]
       /\ \A i, j \in DOMAIN name_lookup' :
            name_lookup'[i] = name_lookup'[j] => i = j
       /\ last'.op = "from_prefix_name" /\ last'.res = "Ok" =>
            \A n \in Live(arena) : \A pf \in PrefixInputs :
                LET r == from_prefix_name(arena, prefix_lookup', name_lookup',
                                          n, pf, last'.input[2])
                IN  (/\ r.res = "Ok"
                     /\ r.name_lookup[r.name_id].namespace_id
                          = name_lookup'[last'.value].namespace_id)
                      => /\ r.name_id = last'.value
                         /\ eq(XmlNameRef(n, r.name_id),
                               XmlNameRef(last'.node, last'.value))
                         /\ hash(XmlNameRef(n, r.name_id))
                              = hash(XmlNameRef(last'.node, last'.value))]_vars

\* C23 witness: name_ns_mut was asked for "a" in N1 while "a" is interned in
\* no namespace, and returned an id of its own for it.
C23_Witness ==
    /\ last.op = "name_ns_mut"
    /\ last.input = <<<<"a">>, N1>>
    /\ Len(name_lookup) = 2
    /\ name_lookup[last.value] = Name(<<"a">>, N1)
    /\ get_id(name_lookup, Name(<<"a">>, no_namespace_id)) # None
    /\ get_id(name_lookup, Name(<<"a">>, no_namespace_id)) # last.value

(***************************************************************************)
(* Properties of moves of attached nodes.                                  *)
(***************************************************************************)
\* C24: when an insertion moves an attached Comment, ProcessingInstruction
\* or Element that sat between two Text siblings, those two Text nodes are
\* not adjacent siblings after the move.
C24_MoveKeepsTextsApart ==
    [][(/\ last'.op \in InsertOps
        /\ last'.res = "Ok"
        /\ value_type(arena, last'.node)
              \in {"Comment", "ProcessingInstruction", "Element"}
        /\ BetweenTexts(arena, last'.node))
          => LET p == previous_sibling(arena, last'.node)
                 x == next_sibling(arena, last'.node)
             IN  ~(/\ ~is_removed(arena', p)
                   /\ ~is_removed(arena', x)
                   /\ is_text(arena', p)
                   /\ is_text(arena', x)
                   /\ next_sibling(arena', p) = x
                   /\ previous_sibling(arena', x) = p)]_vars

\* the text contents of the nodes of seq, one after the other
RECURSIVE TextOf(_, _)
TextOf(a, seq) ==
    IF seq = <<>> THEN <<>>
    ELSE (IF is_text(a, Head(seq)) THEN text_str(a, Head(seq)) ELSE <<>>)
            \o TextOf(a, Tail(seq))

\* the call op(other, n) inserts the attached Text node n where it is its
\* own merge candidate
OwnMergeCandidate(a, op, n, other) ==
    /\ is_text(a, n)
    /\ parent(a, n) # None
    /\ \/ op = "append" /\ parent(a, n) = other /\ last_child(a, other) = n
       \/ op = "prepend" /\ parent(a, n) = other /\ first_child(a, other) = n
       \/ op = "insert_after" /\ other = n

\* C25: append(parent, t) of the last child t, prepend(parent, t) of the
\* first child t and insert_after(t, t), for an attached Text node t, leave
\* the concatenated text of the parent's children as it was.
C25_OwnMergeKeepsText ==
    [][OwnMergeCandidate(arena, last'.op, last'.node, last'.other)
          => TextOf(arena', children(arena', parent(arena, last'.node)))
               = TextOf(arena, children(arena, parent(arena, last'.node)))]_vars
====
